---------------------------- MODULE Spec2Model ----------------------------
(***************************************************************************)
(* A model of the detach worker: the key-value server loop and its CLI     *)
(* client (src/bin/worker.rs) and the length-prefixed codec                *)
(* (src/serialize.rs).                                                     *)
(*                                                                         *)
(* Text is modelled as a sequence of one-character strings, so that        *)
(* slicing, split_off, split_once and read_line are computed as the code   *)
(* computes them.  All modelled text is ASCII: a byte index is a character *)
(* index.                                                                  *)
(***************************************************************************)
EXTENDS Integers, Sequences, FiniteSets, Bags, TLC

VARIABLES
    pc,               \* start_socket: "accept" (Listening), "handle" (Handling),
                      \*   "check" (the flag test after a connection), "done" (Terminated)
    exit,             \* how start_socket ended: "none", "ok", "err", "panic"
    count,            \* AppState.count (u8)
    db,               \* AppState.db: a function from the present keys to their values
    should_terminate, \* AppState.should_terminate
    conn,             \* the connection accept() returned, NoConn outside Handling
    req,              \* accept_connection's local `req` after pop(), of the last call
    res,              \* accept_connection's local `res`, of the last call
    backlog,          \* connections made to the listener and not yet accepted
    sockPath,         \* whether /tmp/detach.sock exists in the filesystem
    removedBy,        \* who unlinked /tmp/detach.sock: "none", "client"
    finished,         \* connections the server is done with, the peer not yet having
                      \*   read: a bag of [cli, sent, rx], rx empty when nothing was written
    lastGot,          \* what the peer that finished last ended with
    lastSet,          \* history: per key, the value of the last Set the server processed
    overflowChecks,   \* build profile: TRUE when integer overflow panics (debug)
    script,           \* exchange driver: the frames one peer sends in turn
    cop,              \* decoders: the function applied, "none" before
    cin,              \* decoders: the input text
    cout,             \* decoders: the result
    cval              \* encoders: the value that is encoded

srvVars   == <<pc, exit, count, db, should_terminate, conn, req, res>>
netVars   == <<sockPath, removedBy>>
peerVars  == <<backlog, finished, lastGot>>
driverVars == <<script, cop, cin, cout, cval>>
vars == <<srvVars, netVars, peerVars, lastSet, overflowChecks, driverVars>>

---------------------------------------------------------------------------
(* Text helpers *)

NL == "\n"
SP == " "

\* The index of the first occurrence of c in s, 0 when there is none.
IndexOf(s, c) ==
    IF \E i \in 1..Len(s) : s[i] = c
    THEN CHOOSE i \in 1..Len(s) : s[i] = c /\ \A j \in 1..(i - 1) : s[j] # c
    ELSE 0

\* s[..n]: the first n characters (the caller has checked n <= Len(s)).
Take(s, n) == SubSeq(s, 1, n)

\* s[n..]: the characters from byte offset n on (the caller has checked n <= Len(s)).
Drop(s, n) == SubSeq(s, n + 1, Len(s))

\* String::pop: removes the last character, if any.
Pop(s) == IF Len(s) = 0 THEN s ELSE SubSeq(s, 1, Len(s) - 1)

\* BufRead::read_line: the bytes up to and including the first newline, or
\* everything when there is none (end of stream).
ReadLine(bytes) ==
    IF IndexOf(bytes, NL) = 0 THEN bytes ELSE Take(bytes, IndexOf(bytes, NL))

\* A byte that is not valid UTF-8; read_line fails with InvalidData on it.
BadByte == "<ff>"

IsUtf8(s) == \A i \in 1..Len(s) : s[i] # BadByte

---------------------------------------------------------------------------
(* Results of the decoders: a normal result, an error value, or a panic. *)

Panic      == [tag |-> "Panic"]
Fail       == [tag |-> "Err"]
Okay(v)    == [tag |-> "Ok", val |-> v]

\* Option<String>
None    == [some |-> FALSE, str |-> <<>>]
Some(s) == [some |-> TRUE, str |-> s]

---------------------------------------------------------------------------
(* worker.rs: SocketCommand, SocketResponse and their text forms *)

CmdGet(k)    == [cmd |-> "Get", key |-> k, value |-> <<>>]
CmdSet(k, v) == [cmd |-> "Set", key |-> k, value |-> v]
CmdDump      == [cmd |-> "Dump", key |-> <<>>, value |-> <<>>]
CmdQuit      == [cmd |-> "Quit", key |-> <<>>, value |-> <<>>]

RespValue(o) == [resp |-> "Value", opt |-> o]
RespErr(m)   == [resp |-> "Err", opt |-> Some(m)]
RespOk       == [resp |-> "Ok", opt |-> None]

parse_command(line) ==
    IF Len(line) < 4 THEN Panic
    ELSE LET head == Take(line, 4) IN
         IF head = <<"G", "E", "T", " ">> THEN Okay(CmdGet(Drop(line, 4)))
         ELSE IF head = <<"S", "E", "T", " ">> THEN
             LET key_value == Drop(line, 4)
                 i == IndexOf(key_value, SP)
             IN  IF i = 0 THEN Fail
                 ELSE Okay(CmdSet(Take(key_value, i - 1), Drop(key_value, i)))
         ELSE IF head = <<"D", "U", "M", "P">> THEN Okay(CmdDump)
         ELSE IF head = <<"Q", "U", "I", "T">> THEN Okay(CmdQuit)
         ELSE Fail

parse_response(line) ==
    IF Len(line) < 2 THEN Panic
    ELSE LET head == Take(line, 2) IN
         IF head = <<"O", "K">> THEN Okay(RespOk)
         ELSE IF head = <<"E", "R">> THEN
             IF Len(line) < 4 THEN Panic ELSE Okay(RespErr(Drop(line, 4)))
         ELSE IF head = <<"V", "A">> THEN
             IF Len(line) < 6 THEN Panic ELSE Okay(RespValue(Some(Drop(line, 6))))
         ELSE Fail

FmtSocketCommand(c) ==
    CASE c.cmd = "Get"  -> <<"G", "E", "T", " ">> \o c.key
      [] c.cmd = "Set"  -> <<"S", "E", "T", " ">> \o c.key \o <<SP>> \o c.value
      [] c.cmd = "Dump" -> <<"D", "U", "M", "P">>
      [] c.cmd = "Quit" -> <<"Q", "U", "I", "T">>

FmtSocketResponse(r) ==
    CASE r.resp = "Value" /\ r.opt.some ->
             <<"V", "A", "L", "U", "E", " ">> \o r.opt.str
      [] r.resp = "Value" /\ ~r.opt.some ->
             <<"V", "A", "L", "U", "E", " ", "<", "n", "u", "l", "l", ">">>
      [] r.resp = "Err" -> <<"E", "R", "R", " ">> \o r.opt.str
      [] r.resp = "Ok"  -> <<"O", "K">>

---------------------------------------------------------------------------
(* The Debug text of the map, as `format!("{:?}", state.db)` prints it *)

\* char::escape_debug, for the characters the model uses.
EscapeDebugChar(c) ==
    CASE c = NL   -> <<"\\", "n">>
      [] c = "\"" -> <<"\\", "\"">>
      [] c = "\\" -> <<"\\", "\\">>
      [] OTHER    -> <<c>>

RECURSIVE EscapeDebug(_)
EscapeDebug(s) ==
    IF Len(s) = 0 THEN <<>> ELSE EscapeDebugChar(Head(s)) \o EscapeDebug(Tail(s))

\* <str as Debug>::fmt
DebugStr(s) == <<"\"">> \o EscapeDebug(s) \o <<"\"">>

\* The iteration orders a HashMap with these keys may have.
Orders(keys) ==
    { o \in [1..Cardinality(keys) -> keys] : \A k \in keys : \E i \in DOMAIN o : o[i] = k }

RECURSIVE DebugEntries(_, _, _)
DebugEntries(m, order, i) ==
    IF i > Len(order) THEN <<>>
    ELSE (IF i > 1 THEN <<",", SP>> ELSE <<>>)
         \o DebugStr(order[i]) \o <<":", SP>> \o DebugStr(m[order[i]])
         \o DebugEntries(m, order, i + 1)

\* <HashMap as Debug>::fmt, iterating in `order`.
DebugMap(m, order) == <<"{">> \o DebugEntries(m, order, 1) \o <<"}">>

---------------------------------------------------------------------------
(* Bounds and the inputs of the environment *)

NumPeers    == 2
MaxRequests == 2
MaxScript   == 4

sk     == <<"k">>
sa     == <<"a">>
sHello == <<"h", "e", "l", "l", "o">>
sMulti == <<"x", NL, "y">>

Keys   == {sk, sa}
Values == {<<>>, sHello, sMulti}

\* What the CLI can be asked to send (Action, handle_command).
CliCommands ==
    {CmdGet(k) : k \in Keys} \cup {CmdSet(sk, v) : v \in Values} \cup {CmdSet(sa, sHello)}
        \cup {CmdDump, CmdQuit}

\* Frames of the protocol serialize.rs documents, each with its newline.
SetHelloFrame ==
    <<"S", "E", "T", " ", "k", " ", "V", "A", "L", " ", "5", " ">> \o sHello \o <<NL>>
GetFrame   == <<"G", "E", "T", " ", "k", NL>>
DelFrame   == <<"D", "E", "L", " ", "k", NL>>
QuitFrame  == <<"Q", "U", "I", "T", NL>>
ShortFrame == <<"G", "E", "T", NL>>

\* What any other process can write to the socket.
RawFrames == {SetHelloFrame, GetFrame, DelFrame, ShortFrame, <<BadByte, NL>>}

U8Max == 255

---------------------------------------------------------------------------
(* Init: start_socket has bound the listener and built AppState::default() *)

\* A connection as the peer made it: whether the peer is the CLI client of
\* worker.rs (it owns a Stream), the bytes it wrote, and whether its end is
\* still open.
Connection(isCli, bytes) == [cli |-> isCli, sent |-> bytes, open |-> TRUE]

NoConn == [cli |-> FALSE, sent |-> <<>>, open |-> FALSE]

\* No value is being encoded.
NoValue == [type |-> "none"]

NoCodec == cop = "none" /\ cin = <<>> /\ cout = Fail /\ cval = NoValue

\* The worker and its surroundings once start_socket has bound the listener.
SrvInit ==
    /\ pc = "accept"
    /\ exit = "none"
    /\ count = 0
    /\ db = <<>>
    /\ should_terminate = FALSE
    /\ conn = NoConn
    /\ req = <<>>
    /\ res = RespOk
    /\ backlog = <<>>
    /\ finished = EmptyBag
    /\ lastGot = [how |-> "none"]
    /\ sockPath = TRUE
    /\ removedBy = "none"
    /\ lastSet = <<>>
    /\ overflowChecks \in BOOLEAN

Init == SrvInit /\ script = <<>> /\ NoCodec

---------------------------------------------------------------------------
(* The peers: the CLI client of worker.rs (command, send, recv, Stream) and *)
(* any other process that connects to the socket                            *)

\* connect() can succeed: the path names a socket that is being listened on.
CanConnect == sockPath /\ pc # "done"

\* The peers that hold a connection.
InFlight ==
    Len(backlog) + (IF conn = NoConn THEN 0 ELSE 1) + BagCardinality(finished)

\* A peer connects and writes `bytes`, then blocks reading.
Connect(isCli, bytes) ==
    /\ InFlight < NumPeers
    /\ CanConnect
    /\ backlog' = Append(backlog, Connection(isCli, bytes))
    /\ UNCHANGED <<srvVars, netVars, finished, lastGot, lastSet, overflowChecks,
                   driverVars>>

\* command(cmd) up to recv: Stream::connect, then send writes "{cmd}\n".
ClientCall(cmd) == Connect(TRUE, FmtSocketCommand(cmd) \o <<NL>>)

\* Another process connects and writes a frame of its own.
RawCall(frame) == Connect(FALSE, frame)

\* command(cmd) when Stream::connect fails: the error is returned before a
\* Stream exists, so nothing is dropped.
ClientConnectFails ==
    /\ ~CanConnect
    /\ lastGot # [how |-> "connect failed"]
    /\ lastGot' = [how |-> "connect failed"]
    /\ UNCHANGED <<srvVars, netVars, backlog, finished, lastSet, overflowChecks,
                   driverVars>>

\* Drop for Stream: remove_file(path).unwrap().
DropStream == IF sockPath THEN "removed" ELSE "panic"

\* command(cmd) from recv on: read_line, pop, parse_response, println, and the
\* Stream is dropped on every way out (return, error, unwinding).
ClientRecv(f) ==
    /\ BagIn(f, finished)
    /\ f.cli
    /\ finished' = finished (-) SetToBag({f})
    /\ lastGot' = [how |-> "recv", sent |-> f.sent,
                   result |-> parse_response(Pop(ReadLine(f.rx))),
                   drop |-> DropStream]
    /\ sockPath' = FALSE
    /\ removedBy' = IF sockPath THEN "client" ELSE removedBy
    /\ UNCHANGED <<srvVars, backlog, lastSet, overflowChecks, driverVars>>

\* Another process reads the response line and closes its socket.
RawRecv(f) ==
    /\ BagIn(f, finished)
    /\ ~f.cli
    /\ finished' = finished (-) SetToBag({f})
    /\ lastGot' = [how |-> "raw", sent |-> f.sent, line |-> Pop(ReadLine(f.rx))]
    /\ UNCHANGED <<srvVars, netVars, backlog, lastSet, overflowChecks, driverVars>>

\* Another process closes its socket without waiting for the response.
RawHangup(i) ==
    /\ i \in 1..Len(backlog)
    /\ ~backlog[i].cli
    /\ backlog[i].open
    /\ backlog' = [backlog EXCEPT ![i].open = FALSE]
    /\ UNCHANGED <<srvVars, netVars, finished, lastGot, lastSet, overflowChecks,
                   driverVars>>

---------------------------------------------------------------------------
(* The server: start_socket and accept_connection *)

\* An accept that returns the connection made last.
AcceptNewest ==
    /\ pc = "accept"
    /\ Len(backlog) > 0
    /\ conn' = backlog[Len(backlog)]
    /\ backlog' = Pop(backlog)
    /\ pc' = "handle"
    /\ UNCHANGED <<exit, count, db, should_terminate, req, res, netVars,
                   finished, lastGot, lastSet, overflowChecks, driverVars>>

\* listener.accept() returns the next connection (line 184, Ok arm).
Accept ==
    /\ pc = "accept"
    /\ Len(backlog) > 0
    /\ conn' = Head(backlog)
    /\ backlog' = Tail(backlog)
    /\ pc' = "handle"
    /\ UNCHANGED <<exit, count, db, should_terminate, req, res, netVars,
                   finished, lastGot, lastSet, overflowChecks, driverVars>>

\* A failed accept that ends the loop, as a `?` on accept() would.
AcceptFailsFatal ==
    /\ pc = "accept"
    /\ pc' = "done"
    /\ exit' = "err"
    /\ UNCHANGED <<count, db, should_terminate, conn, req, res, netVars,
                   peerVars, lastSet, overflowChecks, driverVars>>

\* listener.accept() fails (line 189): logged, then the flag test.
AcceptFails ==
    /\ pc = "accept"
    /\ pc' = "check"
    /\ UNCHANGED <<exit, count, db, should_terminate, conn, req, res, netVars,
                   peerVars, lastSet, overflowChecks, driverVars>>

\* read_line returns once a whole line, or the end of the stream, is there.
LineReady(c) == IndexOf(c.sent, NL) # 0 \/ ~c.open

\* The line accept_connection reads, and `req` after pop().
Line    == ReadLine(conn.sent)
Request == Pop(Line)

\* A map insertion that keeps the value of a key already present.
InsertIfAbsent(m, k, v) ==
    [x \in (DOMAIN m) \cup {k} |-> IF x \in DOMAIN m THEN m[x] ELSE v]

\* HashMap::insert
Insert(m, k, v) == [x \in (DOMAIN m) \cup {k} |-> IF x = k THEN v ELSE m[x]]

\* HashMap::get(..).cloned()
Lookup(m, k) == IF k \in DOMAIN m THEN Some(m[k]) ELSE None

\* The match of accept_connection with a Get that takes the entry out of the
\* map (HashMap::remove in place of get).
ApplyGetRemoves(c, order) ==
    CASE c.cmd = "Get" ->
             [res |-> RespValue(Lookup(db, c.key)),
              db |-> [x \in (DOMAIN db) \ {c.key} |-> db[x]],
              term |-> should_terminate]
      [] c.cmd = "Set" ->
             [res |-> RespOk, db |-> Insert(db, c.key, c.value), term |-> should_terminate]
      [] c.cmd = "Dump" ->
             [res |-> RespValue(Some(DebugMap(db, order))), db |-> db,
              term |-> should_terminate]
      [] c.cmd = "Quit" ->
             [res |-> RespOk, db |-> db, term |-> TRUE]

\* The match of accept_connection (lines 219-230): the response, the map and
\* the flag after the command; `order` is the map's iteration order.
Apply(c, order) ==
    CASE c.cmd = "Get" ->
             [res |-> RespValue(Lookup(db, c.key)), db |-> db, term |-> should_terminate]
      [] c.cmd = "Set" ->
             [res |-> RespOk, db |-> Insert(db, c.key, c.value), term |-> should_terminate]
      [] c.cmd = "Dump" ->
             [res |-> RespValue(Some(DebugMap(db, order))), db |-> db,
              term |-> should_terminate]
      [] c.cmd = "Quit" ->
             [res |-> RespOk, db |-> db, term |-> TRUE]

\* The server is done with the connection c, having written `bytes` to it:
\* its peer, if still there, can now read them (or the end of the stream).
Closed(c, bytes) ==
    IF c.open THEN SetToBag({[cli |-> c.cli, sent |-> c.sent, rx |-> bytes]})
    ELSE EmptyBag

RECURSIVE ClosedAll(_)
ClosedAll(q) ==
    IF Len(q) = 0 THEN EmptyBag ELSE Closed(Head(q), <<>>) (+) ClosedAll(Tail(q))

\* The process ends: start_socket returns Err or unwinds.  The listener is
\* dropped, which closes the connections not yet accepted; UnixListener does
\* not unlink its path.
Ends(how, bytes) ==
    /\ pc' = "done"
    /\ exit' = how
    /\ conn' = NoConn
    /\ finished' = finished (+) Closed(conn, bytes) (+) ClosedAll(backlog)
    /\ backlog' = <<>>
    /\ UNCHANGED <<netVars, lastGot>>

\* accept_connection: read_line fails (line 216), the error goes up through
\* the `?` of line 187.
HandleReadError ==
    /\ pc = "handle"
    /\ LineReady(conn)
    /\ ~IsUtf8(Line)
    /\ Ends("err", <<>>)
    /\ UNCHANGED <<count, db, should_terminate, req, res, lastSet, overflowChecks,
                   driverVars>>

\* A parse failure that is answered with an error response before the
\* handler returns.
HandleParseFailureReplies ==
    /\ pc = "handle"
    /\ LineReady(conn)
    /\ IsUtf8(Line)
    /\ parse_command(Request).tag # "Ok"
    /\ req' = Request
    /\ Ends(IF parse_command(Request).tag = "Panic" THEN "panic" ELSE "err",
            FmtSocketResponse(RespErr(<<>>)) \o <<NL>>)
    /\ UNCHANGED <<count, db, should_terminate, res, lastSet, overflowChecks,
                   driverVars>>

\* accept_connection: parse_command returns Err or panics (line 219).
HandleParseFailure ==
    /\ pc = "handle"
    /\ LineReady(conn)
    /\ IsUtf8(Line)
    /\ parse_command(Request).tag # "Ok"
    /\ req' = Request
    /\ Ends(IF parse_command(Request).tag = "Panic" THEN "panic" ELSE "err", <<>>)
    /\ UNCHANGED <<count, db, should_terminate, res, lastSet, overflowChecks,
                   driverVars>>

\* The history of Set commands that the claims about Get refer to.
NoteSet(c) ==
    IF c.cmd = "Set"
    THEN [x \in (DOMAIN lastSet) \cup {c.key} |->
             IF x = c.key THEN c.value ELSE lastSet[x]]
    ELSE lastSet

\* accept_connection: the command is applied and write_all fails (line 232),
\* the peer having closed its socket.
HandleWriteError ==
    /\ pc = "handle"
    /\ LineReady(conn)
    /\ IsUtf8(Line)
    /\ parse_command(Request).tag = "Ok"
    /\ ~conn.open
    /\ \E order \in Orders(DOMAIN db) :
         LET a == Apply(parse_command(Request).val, order) IN
         /\ res' = a.res
         /\ db' = a.db
         /\ should_terminate' = a.term
    /\ lastSet' = NoteSet(parse_command(Request).val)
    /\ req' = Request
    /\ Ends("err", <<>>)
    /\ UNCHANGED <<count, overflowChecks, driverVars>>

\* `state.count += 1` on a u8 (line 234): at the maximum it panics when the
\* build checks overflow, and wraps to 0 otherwise.
Increment(c) ==
    IF c = U8Max
    THEN [panic |-> overflowChecks, value |-> (c + 1) % (U8Max + 1)]
    ELSE [panic |-> FALSE, value |-> c + 1]

\* accept_connection: the command is applied, the response written, the
\* counter incremented (lines 219-237).
HandleCommand ==
    /\ pc = "handle"
    /\ LineReady(conn)
    /\ IsUtf8(Line)
    /\ parse_command(Request).tag = "Ok"
    /\ conn.open
    /\ \E order \in Orders(DOMAIN db) :
         LET a == Apply(parse_command(Request).val, order) IN
         /\ res' = a.res
         /\ db' = a.db
         /\ should_terminate' = a.term
         /\ IF Increment(count).panic
            THEN /\ Ends("panic", FmtSocketResponse(a.res) \o <<NL>>)
                 /\ UNCHANGED count
            ELSE /\ count' = Increment(count).value
                 /\ pc' = "check"
                 /\ conn' = NoConn
                 /\ finished' = finished (+) Closed(conn, FmtSocketResponse(a.res) \o <<NL>>)
                 /\ UNCHANGED <<exit, netVars, backlog, lastGot>>
    /\ lastSet' = NoteSet(parse_command(Request).val)
    /\ req' = Request
    /\ UNCHANGED <<overflowChecks, driverVars>>

\* A loop that never tests the flag.
CheckTerminateNoBreak ==
    /\ pc = "check"
    /\ pc' = "accept"
    /\ UNCHANGED <<exit, count, db, should_terminate, conn, req, res, netVars,
                   peerVars, lastSet, overflowChecks, driverVars>>

\* The flag test of lines 192-194: break, then Ok(()) (line 197).  The
\* listener is dropped as the function returns.
CheckTerminate ==
    /\ pc = "check"
    /\ IF should_terminate
       THEN /\ pc' = "done"
            /\ exit' = "ok"
            /\ finished' = finished (+) ClosedAll(backlog)
            /\ backlog' = <<>>
       ELSE /\ pc' = "accept"
            /\ UNCHANGED <<exit, backlog, finished>>
    /\ UNCHANGED <<count, db, should_terminate, conn, req, res, netVars, lastGot,
                   lastSet, overflowChecks, driverVars>>

---------------------------------------------------------------------------

Server ==
    \/ Accept
    \/ AcceptFails
    \/ HandleReadError
    \/ HandleParseFailure
    \/ HandleWriteError
    \/ HandleCommand
    \/ CheckTerminate

Next ==
    \/ \E c \in CliCommands : count < MaxRequests /\ ClientCall(c)
    \/ \E f \in RawFrames : count < MaxRequests /\ RawCall(f)
    \/ ClientConnectFails
    \/ \E f \in BagToSet(finished) : ClientRecv(f)
    \/ \E f \in BagToSet(finished) : RawRecv(f)
    \/ \E i \in 1..Len(backlog) : RawHangup(i)
    \/ Server

Spec == Init /\ [][Next]_vars

---------------------------------------------------------------------------
(* The end-to-end exchange: one peer sends the frames of `script` in turn, *)
(* each on a connection of its own, after it has read the last response    *)

ExchangeFrames == {SetHelloFrame, GetFrame, DelFrame}

Scripts == UNION { [1..n -> ExchangeFrames] : n \in 1..MaxScript }

Exchange == <<SetHelloFrame, GetFrame, DelFrame, GetFrame>>

ExchangeInit == SrvInit /\ script \in Scripts /\ NoCodec

ScriptSend ==
    /\ InFlight = 0
    /\ count < Len(script)
    /\ RawCall(script[count + 1])

ExchangeNext ==
    \/ ScriptSend
    \/ \E f \in BagToSet(finished) : RawRecv(f)
    \/ Accept
    \/ AcceptFails
    \/ HandleParseFailure
    \/ HandleCommand
    \/ CheckTerminate

ExchangeSpec == ExchangeInit /\ [][ExchangeNext]_vars

---------------------------------------------------------------------------
(* A long-running worker: peers keep sending Get and Quit, without a bound *)
(* on the number of requests                                               *)

CounterFrames == {GetFrame, QuitFrame}

CounterNext ==
    \/ \E f \in CounterFrames : RawCall(f)
    \/ \E f \in BagToSet(finished) : RawRecv(f)
    \/ Accept
    \/ HandleCommand
    \/ CheckTerminate

CounterSpec == Init /\ [][CounterNext]_vars

---------------------------------------------------------------------------
(* serialize.rs: Command, Response, WrappedValue and their decoders *)

\* WrappedValue { buf, len }
Wrapped(b, n) == [buf |-> b, len |-> n]

\* WrappedValue::empty
empty == Wrapped(None, 0)

CommandGet(k)    == [cmd |-> "Get", key |-> k, value |-> empty]
CommandSet(k, w) == [cmd |-> "Set", key |-> k, value |-> w]
CommandDelete(k) == [cmd |-> "Delete", key |-> k, value |-> empty]
CommandDump      == [cmd |-> "Dump", key |-> <<>>, value |-> empty]
CommandQuit      == [cmd |-> "Quit", key |-> <<>>, value |-> empty]

ResponseValue(w) == [resp |-> "Value", value |-> w, msg |-> <<>>]
ResponseErr(m)   == [resp |-> "Err", value |-> empty, msg |-> m]
ResponseOk       == [resp |-> "Ok", value |-> empty, msg |-> <<>>]

Digits == <<"0", "1", "2", "3", "4", "5", "6", "7", "8", "9">>

IsDigit(c) == \E d \in 1..10 : Digits[d] = c

DigitValue(c) == (CHOOSE d \in 1..10 : Digits[d] = c) - 1

RECURSIVE DigitsValue(_, _)
DigitsValue(s, acc) ==
    IF Len(s) = 0 THEN acc ELSE DigitsValue(Tail(s), 10 * acc + DigitValue(Head(s)))

\* str::parse::<usize>: an optional "+", then one digit or more; -1 stands
\* for the error.
ParseUsize(s) ==
    LET body == IF Len(s) > 0 /\ s[1] = "+" THEN Tail(s) ELSE s IN
    IF Len(body) = 0 \/ \E i \in 1..Len(body) : ~IsDigit(body[i])
    THEN -1
    ELSE DigitsValue(body, 0)

\* <WrappedValue as FromStr>::from_str with no buffer kept for an empty rest.
WrappedValueFromStrNoBuf(value) ==
    IF Len(value) < 5 \/ Take(value, 4) # <<"V", "A", "L", " ">> THEN Fail
    ELSE LET inner == Drop(value, 4) IN
         IF inner[1] = "0" THEN Okay(empty)
         ELSE LET i == IndexOf(inner, SP) IN
              IF i = 0 THEN Fail
              ELSE IF ParseUsize(Take(inner, i - 1)) < 0 THEN Fail
              ELSE Okay(Wrapped(IF Len(Drop(inner, i)) = 0 THEN None ELSE Some(Drop(inner, i)),
                                ParseUsize(Take(inner, i - 1))))

\* <WrappedValue as FromStr>::from_str
WrappedValueFromStr(value) ==
    IF Len(value) < 5 \/ Take(value, 4) # <<"V", "A", "L", " ">> THEN Fail
    ELSE LET inner == Drop(value, 4) IN
         IF inner[1] = "0" THEN Okay(empty)
         ELSE LET i == IndexOf(inner, SP) IN
              IF i = 0 THEN Fail
              ELSE IF ParseUsize(Take(inner, i - 1)) < 0 THEN Fail
              ELSE Okay(Wrapped(Some(Drop(inner, i)), ParseUsize(Take(inner, i - 1))))

\* <Command as FromStr>::from_str with the keys sliced from offset 3.
CommandFromStrKey3(value) ==
    IF Len(value) < 3 THEN Panic
    ELSE LET head == Take(value, 3) IN
         IF head = <<"G", "E", "T">> THEN
             IF Len(value) < 4 THEN Panic ELSE Okay(CommandGet(Drop(value, 3)))
         ELSE IF head = <<"S", "E", "T">> THEN
             IF Len(value) < 4 THEN Panic
             ELSE LET rest == Drop(value, 4)
                      i == IndexOf(rest, SP)
                  IN  IF i = 0 THEN Fail
                      ELSE IF WrappedValueFromStr(Drop(rest, i)).tag # "Ok" THEN Fail
                      ELSE Okay(CommandSet(Take(rest, i - 1),
                                           WrappedValueFromStr(Drop(rest, i)).val))
         ELSE IF head = <<"D", "E", "L">> THEN
             IF Len(value) < 4 THEN Panic ELSE Okay(CommandDelete(Drop(value, 3)))
         ELSE IF head = <<"D", "M", "P">> THEN Okay(CommandDump)
         ELSE IF head = <<"E", "X", "T">> THEN Okay(CommandQuit)
         ELSE Fail

\* <Command as FromStr>::from_str
CommandFromStr(value) ==
    IF Len(value) < 3 THEN Panic
    ELSE LET head == Take(value, 3) IN
         IF head = <<"G", "E", "T">> THEN
             IF Len(value) < 4 THEN Panic ELSE Okay(CommandGet(Drop(value, 4)))
         ELSE IF head = <<"S", "E", "T">> THEN
             IF Len(value) < 4 THEN Panic
             ELSE LET rest == Drop(value, 4)
                      i == IndexOf(rest, SP)
                  IN  IF i = 0 THEN Fail
                      ELSE IF WrappedValueFromStr(Drop(rest, i)).tag # "Ok" THEN Fail
                      ELSE Okay(CommandSet(Take(rest, i - 1),
                                           WrappedValueFromStr(Drop(rest, i)).val))
         ELSE IF head = <<"D", "E", "L">> THEN
             IF Len(value) < 4 THEN Panic ELSE Okay(CommandDelete(Drop(value, 4)))
         ELSE IF head = <<"D", "M", "P">> THEN Okay(CommandDump)
         ELSE IF head = <<"E", "X", "T">> THEN Okay(CommandQuit)
         ELSE Fail

\* <Response as FromStr>::from_str
ResponseFromStr(value) ==
    IF Len(value) < 2 THEN Panic
    ELSE LET head == Take(value, 2) IN
         IF head = <<"O", "K">> THEN Okay(ResponseOk)
         ELSE IF head = <<"E", "R">> THEN
             IF Len(value) < 4 THEN Panic ELSE Okay(ResponseErr(Drop(value, 4)))
         ELSE IF head = <<"V", "A">> THEN
             IF WrappedValueFromStr(value).tag # "Ok" THEN Fail
             ELSE Okay(ResponseValue(WrappedValueFromStr(value).val))
         ELSE Fail

\* WrappedValue::from_string
from_string(str) == Wrapped(Some(str), Len(str))

\* buf[..len] and String::from_utf8(..).unwrap(): a panic when len is past the
\* end of the buffer or the bytes are not UTF-8.
SliceTo(buf, len) ==
    IF len > Len(buf) THEN Panic
    ELSE IF ~IsUtf8(Take(buf, len)) THEN Panic
    ELSE Okay(Take(buf, len))

\* WrappedValue::into_inner
into_inner(w) == IF w.buf.some THEN SliceTo(w.buf.str, w.len) ELSE Okay(<<>>)

\* Display of a usize: its decimal digits.
RECURSIVE ToDecimal(_)
ToDecimal(n) ==
    IF n < 10 THEN <<Digits[n + 1]>>
    ELSE ToDecimal(n \div 10) \o <<Digits[(n % 10) + 1]>>

\* The last arm of <WrappedValue as Display>::fmt is taken.
PanicBranch(w) == w.len # 0 /\ ~w.buf.some

\* <WrappedValue as Display>::fmt with its separator omitted.
FmtWrappedValueNoSep(w) ==
    IF w.len = 0 THEN Okay(<<"V", "A", "L", " ", "0">>)
    ELSE IF PanicBranch(w) THEN Panic
    ELSE IF SliceTo(w.buf.str, w.len).tag # "Ok" THEN Panic
    ELSE Okay(<<"V", "A", "L", " ">> \o ToDecimal(w.len) \o SliceTo(w.buf.str, w.len).val)

\* <WrappedValue as Display>::fmt
FmtWrappedValue(w) ==
    IF w.len = 0 THEN Okay(<<"V", "A", "L", " ", "0">>)
    ELSE IF PanicBranch(w) THEN Panic
    ELSE IF SliceTo(w.buf.str, w.len).tag # "Ok" THEN Panic
    ELSE Okay(<<"V", "A", "L", " ">> \o ToDecimal(w.len) \o <<SP>>
                  \o SliceTo(w.buf.str, w.len).val)

\* <Command as Display>::fmt
FmtCommand(c) ==
    IF c.cmd = "Get" THEN Okay(<<"G", "E", "T", " ">> \o c.key)
    ELSE IF c.cmd = "Set" THEN
        IF FmtWrappedValue(c.value).tag # "Ok" THEN Panic
        ELSE Okay(<<"S", "E", "T", " ">> \o c.key \o <<SP>> \o FmtWrappedValue(c.value).val)
    ELSE IF c.cmd = "Delete" THEN Okay(<<"D", "E", "L", " ">> \o c.key)
    ELSE IF c.cmd = "Dump" THEN Okay(<<"D", "M", "P">>)
    ELSE Okay(<<"E", "X", "T">>)

\* <Response as Display>::fmt with the separator of the Err arm omitted.
FmtResponseNoSep(r) ==
    IF r.resp = "Value" THEN FmtWrappedValue(r.value)
    ELSE IF r.resp = "Err" THEN Okay(<<"E", "R", "R">> \o r.msg)
    ELSE Okay(<<"O", "K">>)

\* <Response as Display>::fmt
FmtResponse(r) ==
    IF r.resp = "Value" THEN FmtWrappedValue(r.value)
    ELSE IF r.resp = "Err" THEN Okay(<<"E", "R", "R", " ">> \o r.msg)
    ELSE Okay(<<"O", "K">>)

---------------------------------------------------------------------------
(* The decoders applied to lines: each line is a beginning of a frame of   *)
(* one of the two protocols                                                *)

Prefixes(s) == { Take(s, n) : n \in 0..Len(s) }

CodecFrames ==
    { Pop(SetHelloFrame), Pop(GetFrame), Pop(DelFrame), Pop(QuitFrame),
      <<"D", "M", "P">>, <<"E", "X", "T">>, <<"D", "U", "M", "P">>,
      <<"O", "K">>, <<"E", "R", "R", " ", "x">>,
      <<"V", "A", "L", " ", "0">>, <<"V", "A", "L", " ", "5", " ">> \o sHello,
      <<"V", "A", "L", "U", "E", " ">> \o sHello }

CodecInputs == UNION { Prefixes(f) : f \in CodecFrames }

CodecInit ==
    /\ SrvInit
    /\ script = <<>>
    /\ cop = "none"
    /\ cin \in CodecInputs
    /\ cout = Fail
    /\ cval = NoValue

\* One decoder is applied to the input.
Decode(name, result) ==
    /\ cop = "none"
    /\ cop' = name
    /\ cout' = result
    /\ UNCHANGED <<srvVars, netVars, peerVars, lastSet, overflowChecks, script, cin, cval>>

DecodeCommand        == Decode("Command::from_str", CommandFromStr(cin))
DecodeResponse       == Decode("Response::from_str", ResponseFromStr(cin))
DecodeWrappedValue   == Decode("WrappedValue::from_str", WrappedValueFromStr(cin))
DecodeSocketCommand  == Decode("parse_command", parse_command(cin))
DecodeSocketResponse == Decode("parse_response", parse_response(cin))

\* The constructors of WrappedValue: empty() and from_string(input).
MakeEmpty  == Decode("WrappedValue::empty", Okay(empty))
WrapString == Decode("WrappedValue::from_string", Okay(from_string(cin)))

CodecNext ==
    \/ DecodeCommand
    \/ DecodeResponse
    \/ DecodeWrappedValue
    \/ DecodeSocketCommand
    \/ DecodeSocketResponse
    \/ MakeEmpty
    \/ WrapString

CodecSpec == CodecInit /\ [][CodecNext]_vars

---------------------------------------------------------------------------
(* The encoders applied to values, and the decoders to what they wrote     *)

sZero  == <<"0", "a">>
sSpace == <<"a", SP, "b">>
sLong  == sHello \o <<SP>> \o sHello

Payloads == {<<>>, sHello, sMulti, sZero, sSpace, sLong}
Messages == {<<>>, <<"x">>, <<"n", "o", SP, "k">>}
CodecKeys == Keys \cup {<<>>}

\* The values a caller can build: WrappedValue has private fields, so a
\* caller gets one from empty() or from_string() only.
WrappedValues == {empty} \cup {from_string(b) : b \in Payloads}

Commands ==
    {CommandGet(k) : k \in CodecKeys} \cup {CommandDelete(k) : k \in CodecKeys}
        \cup {CommandSet(k, w) : k \in CodecKeys, w \in WrappedValues}
        \cup {CommandDump, CommandQuit}

Responses ==
    {ResponseOk} \cup {ResponseErr(m) : m \in Messages}
        \cup {ResponseValue(w) : w \in WrappedValues}

CodecValues ==
    {[type |-> "Command", v |-> c] : c \in Commands}
        \cup {[type |-> "Response", v |-> r] : r \in Responses}
        \cup {[type |-> "Payload", v |-> [bytes |-> b]] : b \in Payloads}

RoundTripInit ==
    /\ SrvInit
    /\ script = <<>>
    /\ cop = "none"
    /\ cin = <<>>
    /\ cout = Fail
    /\ cval \in CodecValues

\* to_string() of the value: the text is kept in cin, a panic in cout.
Encode(type, name, result) ==
    /\ cop = "none"
    /\ cval.type = type
    /\ cop' = name
    /\ IF result.tag = "Ok"
       THEN cin' = result.val /\ cout' = cout
       ELSE cin' = cin /\ cout' = result
    /\ UNCHANGED <<srvVars, netVars, peerVars, lastSet, overflowChecks, script, cval>>

EncodeCommand      == Encode("Command", "Command::fmt", FmtCommand(cval.v))
EncodeResponse     == Encode("Response", "Response::fmt", FmtResponse(cval.v))
EncodeWrappedValue ==
    Encode("Payload", "WrappedValue::fmt", FmtWrappedValue(from_string(cval.v.bytes)))

\* The text that was written is parsed back.
DecodeEncoded(from, name, result) ==
    /\ cop = from
    /\ cout.tag # "Panic"
    /\ cop' = name
    /\ cout' = result
    /\ UNCHANGED <<srvVars, netVars, peerVars, lastSet, overflowChecks, script, cin, cval>>

DecodeEncodedCommand ==
    DecodeEncoded("Command::fmt", "Command::from_str", CommandFromStr(cin))
DecodeEncodedResponse ==
    DecodeEncoded("Response::fmt", "Response::from_str", ResponseFromStr(cin))
DecodeEncodedWrappedValue ==
    DecodeEncoded("WrappedValue::fmt", "WrappedValue::from_str", WrappedValueFromStr(cin))

RoundTripNext ==
    \/ EncodeCommand
    \/ EncodeResponse
    \/ EncodeWrappedValue
    \/ DecodeEncodedCommand
    \/ DecodeEncodedResponse
    \/ DecodeEncodedWrappedValue

RoundTripSpec == RoundTripInit /\ [][RoundTripNext]_vars

---------------------------------------------------------------------------
(* The claims *)

\* The connection `conn` as its peer finds it once the server has written
\* `bytes` and a newline to it.
Replied(bytes) == [cli |-> conn.cli, sent |-> conn.sent, rx |-> bytes \o <<NL>>]

\* What the CLI client decodes when the server answers r.
DecodeOf(r) == parse_response(Pop(ReadLine(FmtSocketResponse(r) \o <<NL>>)))

\* C1: a failure while handling one connection ends that connection only; the
\* server does not reach Terminated unless a Quit command was processed.
C1_TerminatesOnlyOnQuit == pc = "done" => should_terminate

\* C2: once Quit is processed the response of that connection is Ok; in the
\* step that sets the flag the loop has either written "OK" to the peer and
\* stands before the flag test, or has ended on a write error or a panic;
\* with the flag set the only step of the loop is its exit, so no accept
\* follows.
C2_QuitRepliesOkThenExits ==
    /\ [](should_terminate => (res = RespOk /\ pc \in {"check", "done"}))
    /\ [][(~should_terminate /\ should_terminate') =>
            \/ pc' = "done" /\ exit' \in {"err", "panic"}
            \/ /\ pc' = "check"
               /\ exit' = "none"
               /\ BagIn(Replied(<<"O", "K">>), finished')]_vars
    /\ [][(should_terminate /\ pc' # pc) =>
            (pc = "check" /\ pc' = "done" /\ exit' = "ok")]_vars

C2_Witness == pc = "done" /\ exit = "ok" /\ should_terminate /\ res = RespOk

\* C3: whenever the server loop has exited, the socket path no longer exists
\* and it was the server that removed it.
C3_SocketPathRemovedOnExit == pc = "done" => (~sockPath /\ removedBy = "server")

\* C4: a Set{k, v} is answered OK, and a Get{k} processed after Sets of k is
\* answered with the value of the last of them, whatever was set before.
C4_GetReturnsLastSet ==
    [][(pc = "handle" /\ pc' # "handle" /\ conn.open
            /\ parse_command(Request).tag = "Ok") =>
         LET c == parse_command(Request).val IN
         /\ c.cmd = "Set" => BagIn(Replied(<<"O", "K">>), finished')
         /\ (c.cmd = "Get" /\ c.key \in DOMAIN lastSet) =>
                /\ res' = RespValue(Some(lastSet[c.key]))
                /\ BagIn(Replied(<<"V", "A", "L", "U", "E", " ">> \o lastSet[c.key]),
                         finished')]_vars

C4_Witness ==
    /\ pc = "check"
    /\ count >= 3
    /\ parse_command(req) = Okay(CmdGet(sk))
    /\ sk \in DOMAIN lastSet
    /\ res = RespValue(Some(lastSet[sk]))

\* C5: the server accepts `DEL k`: it answers OK, keeps serving, and k is
\* not in the store afterwards.
C5_DeleteAccepted ==
    req = Pop(DelFrame) => (pc # "done" /\ res = RespOk /\ sk \notin DOMAIN db)

\* C6: what the client decodes for a Get of an absent key is what it decodes
\* for a key that holds the empty string.
C6_AbsentDecodesAsEmpty ==
    (/\ lastGot.how = "recv"
     /\ lastGot.sent \in {FmtSocketCommand(CmdGet(k)) \o <<NL>> : k \in Keys}
     /\ DOMAIN lastSet = {}
     /\ lastGot.result.tag = "Ok")
        => lastGot.result = DecodeOf(RespValue(Some(<<>>)))

\* C7: the four frames of the exchange, sent to a fresh server, are answered
\* OK, VAL 5 hello, OK, VAL 0, and the first stores k -> "hello".
ExchangeReplies ==
    << <<"O", "K">>,
       <<"V", "A", "L", " ", "5", " ">> \o sHello,
       <<"O", "K">>,
       <<"V", "A", "L", " ", "0">> >>

C7_ExchangeTrace ==
    script = Exchange =>
        /\ exit = "none"
        /\ (pc = "check" /\ count \in 1..4) =>
               FmtSocketResponse(res) = ExchangeReplies[count]
        /\ (pc = "check" /\ count = 1) => (DOMAIN db = {sk} /\ db[sk] = sHello)

\* C8: each command processed adds one to the counter, which stays at 255
\* once there, without a panic.
C8_CounterSaturates ==
    [][(pc = "handle" /\ pc' # "handle") =>
         /\ exit' # "panic"
         /\ count' = IF count = U8Max THEN U8Max ELSE count + 1]_vars

\* C9: a line shorter than the discriminator, or than the offset of its
\* argument, decodes to an error value in each decoder.
TooShort(decoder, s) ==
    CASE decoder = "Command::from_str" ->
             \/ Len(s) < 3
             \/ Len(s) < 4 /\ Take(s, 3) \in {<<"G", "E", "T">>, <<"D", "E", "L">>,
                                              <<"S", "E", "T">>}
      [] decoder = "Response::from_str" ->
             \/ Len(s) < 2
             \/ Len(s) < 4 /\ Take(s, 2) = <<"E", "R">>
      [] decoder = "parse_command" -> Len(s) < 4
      [] decoder = "parse_response" ->
             \/ Len(s) < 2
             \/ Len(s) < 4 /\ Take(s, 2) = <<"E", "R">>
      [] OTHER -> FALSE

C9_ShortFrameIsParseError == TooShort(cop, cin) => cout = Fail

\* C10: a Set whose value holds a newline is read as one frame and stored
\* whole.
C10_NewlineValueSurvives ==
    [][(/\ pc = "handle"
        /\ pc' = "check"
        /\ conn.sent = FmtSocketCommand(CmdSet(sk, sMulti)) \o <<NL>>) =>
         /\ req' = Pop(conn.sent)
         /\ sk \in DOMAIN db'
         /\ db'[sk] = sMulti]_vars


\* C11: for every valid Command of the serialize codec (keys without space or
\* newline, Set values of any length, zero included), decoding its encoding
\* gives a Command of the same variant with the same key and the same value
\* bytes; the encoder does not panic on it.
C11_CommandRoundTrip ==
    /\ cop = "Command::fmt" => cout.tag # "Panic"
    /\ cop = "Command::from_str" /\ cval.type = "Command" =>
          /\ cout.tag = "Ok"
          /\ cout.val.cmd = cval.v.cmd
          /\ cout.val.key = cval.v.key
          /\ into_inner(cout.val.value) = into_inner(cval.v.value)

\* A Set whose value has a space and a two-digit length, with the empty key,
\* has been encoded and decoded.
C11_Witness ==
    /\ cop = "Command::from_str"
    /\ cval.type = "Command"
    /\ cval.v = CommandSet(<<>>, from_string(sLong))
    /\ cout.tag = "Ok"

\* C12: for every valid Response of the serialize codec (Ok, Err with any
\* message, the empty one included, Value with any payload, the empty one
\* included), decoding its encoding gives a Response of the same variant with
\* the same message and the same payload bytes.
C12_ResponseRoundTrip ==
    /\ cop = "Response::fmt" => cout.tag # "Panic"
    /\ cop = "Response::from_str" /\ cval.type = "Response" =>
          /\ cout.tag = "Ok"
          /\ cout.val.resp = cval.v.resp
          /\ cout.val.msg = cval.v.msg
          /\ into_inner(cout.val.value) = into_inner(cval.v.value)

\* An Err with the empty message has been encoded and decoded.
C12_Witness ==
    /\ cop = "Response::from_str"
    /\ cval.type = "Response"
    /\ cval.v = ResponseErr(<<>>)
    /\ cout.tag = "Ok"

\* The length field of an encoded value: what follows "VAL " up to the next
\* space, or to the end.
LengthField(text) ==
    LET inner == Drop(text, 4) IN
    IF IndexOf(inner, SP) = 0 THEN inner ELSE Take(inner, IndexOf(inner, SP) - 1)

\* C13: for every payload b, those with newlines or spaces and those that
\* begin with the digit 0 included, the encoding of from_string(b) carries the
\* byte count of b as its decimal length, and decoding that encoding gives a
\* value whose bytes are exactly b.
C13_WrappedValueRoundTrip ==
    /\ cop = "WrappedValue::fmt" =>
          /\ cout.tag # "Panic"
          /\ ParseUsize(LengthField(cin)) = Len(cval.v.bytes)
          /\ ToDecimal(Len(cval.v.bytes)) = LengthField(cin)
    /\ cop = "WrappedValue::from_str" /\ cval.type = "Payload" =>
          /\ cout.tag = "Ok"
          /\ cout.val.len = Len(cval.v.bytes)
          /\ into_inner(cout.val) = Okay(cval.v.bytes)

\* A payload that begins with the digit 0 has been encoded and decoded.
C13_Witness ==
    /\ cop = "WrappedValue::from_str"
    /\ cval.type = "Payload"
    /\ cval.v.bytes = sZero
    /\ cout.tag = "Ok"

\* The WrappedValue inside a result of empty(), from_string() or a decoder of
\* serialize.rs, when the result holds one.
HasWrapped ==
    /\ cout.tag = "Ok"
    /\ cop \in {"WrappedValue::empty", "WrappedValue::from_string",
                "WrappedValue::from_str", "Command::from_str", "Response::from_str"}

WrappedOf == IF cop \in {"Command::from_str", "Response::from_str"}
             THEN cout.val.value ELSE cout.val

\* C17: no WrappedValue with a non-zero length and no buffer is constructed:
\* every value that empty(), from_string() or a decoder produces, for any
\* input, has length zero or a buffer, so the panic arm of the encoder is not
\* taken for it.
C17_NoLengthWithoutBuffer == HasWrapped => ~PanicBranch(WrappedOf)

\* The decoder has produced a value with a non-zero length from a field whose
\* payload is empty.
C17_Witness ==
    /\ cop = "WrappedValue::from_str"
    /\ cin = <<"V", "A", "L", " ", "5", " ">>
    /\ cout.tag = "Ok"
    /\ cout.val.len = 5

\* C18: every WrappedValue the decoder returns has a declared length that is
\* not more than the number of bytes in its buffer, so that into_inner and
\* re-encoding stay in range; a field declaring more bytes than follow it is
\* rejected.
C18_DeclaredLengthInRange ==
    HasWrapped =>
        /\ WrappedOf.len <= Len(WrappedOf.buf.str)
        /\ into_inner(WrappedOf).tag = "Ok"
        /\ FmtWrappedValue(WrappedOf).tag = "Ok"

\* C14: the server handles connections strictly one at a time: a connection
\* is being handled exactly while the handler runs, the next accept takes the
\* oldest waiting connection and only after the handler has returned, a
\* command changes the state only while its own connection is handled, and
\* when the handler returns to the loop its response has been written.
C14_OneConnectionAtATime ==
    /\ [](pc = "handle" <=> conn # NoConn)
    /\ [][pc' = "handle" /\ pc # "handle" =>
            /\ pc = "accept"
            /\ conn = NoConn
            /\ Len(backlog) > 0
            /\ conn' = Head(backlog)
            /\ backlog' = Tail(backlog)]_vars
    /\ [][(db' # db \/ should_terminate' # should_terminate \/ count' # count) =>
            /\ pc = "handle"
            /\ pc' \in {"check", "done"}
            /\ conn' = NoConn
            /\ req' = Pop(ReadLine(conn.sent))]_vars
    /\ [][pc = "handle" /\ pc' = "check" =>
            finished' = finished (+) SetToBag({Replied(FmtSocketResponse(res'))})]_vars

\* A connection is being handled after an earlier one was served, while
\* another one waits to be accepted.
C14_Witness == pc = "handle" /\ count > 0 /\ Len(backlog) > 0

\* C15: when the line read from a connection does not parse as a command,
\* nothing is written to that peer and the map, the termination flag and the
\* request counter are left as they were.
C15_ParseFailureChangesNothing ==
    [][(/\ pc = "handle"
        /\ pc' # "handle"
        /\ IsUtf8(Line)
        /\ parse_command(Request).tag # "Ok") =>
         /\ db' = db
         /\ should_terminate' = should_terminate
         /\ count' = count
         /\ \A f \in BagToSet(finished') :
              CopiesIn(f, finished') > CopiesIn(f, finished) => f.rx = <<>>]_vars

\* A line that does not parse has been handled after a Set was stored.
C15_Witness ==
    /\ req = Pop(DelFrame)
    /\ exit = "err"
    /\ count = 1
    /\ DOMAIN db # {}
    /\ \E f \in BagToSet(finished) : f.sent = DelFrame /\ f.rx = <<>>

\* C16: a failed accept is not fatal: it leaves the map, the counter, the
\* flag and the connections as they were and the server still running, and
\* the loop, whose flag is never set while it accepts, goes on to another
\* accept.
C16_AcceptFailureNotFatal ==
    /\ [](pc = "accept" => ~should_terminate /\ exit = "none")
    /\ [][pc = "accept" /\ pc' # "accept" =>
            /\ pc' \in {"handle", "check"}
            /\ exit' = "none"
            /\ UNCHANGED <<db, count, should_terminate>>
            /\ pc' = "check" => UNCHANGED <<conn, backlog, finished>>]_vars
    /\ [][pc = "check" /\ pc' # "check" /\ ~should_terminate =>
            pc' = "accept" /\ exit' = "none"]_vars

\* An accept has failed before any command was served, a connection waiting.
C16_Witness ==
    /\ pc = "check"
    /\ count = 0
    /\ req = <<>>
    /\ ~should_terminate
    /\ Len(backlog) > 0

\* C19: a client that completes an exchange and releases its connection does
\* not remove the socket path of the server: while the server runs and has
\* not processed Quit the path exists, and no client's release fails because
\* the path is already gone.
C19_ClientKeepsSocketPath ==
    /\ (pc # "done" /\ ~should_terminate) => sockPath
    /\ lastGot.how = "recv" => lastGot.drop = "removed"

\* C20: processing Get, Dump or Quit leaves the map as it was, processing Set
\* changes the entry of its key only; only Quit changes the termination flag,
\* which is false at the start and stays true once set; the map and the flag
\* change in no other step.
C20_FrameEffects ==
    /\ ~should_terminate
    /\ [][(/\ pc = "handle"
           /\ pc' # "handle"
           /\ IsUtf8(Line)
           /\ parse_command(Request).tag = "Ok") =>
            LET c == parse_command(Request).val IN
            /\ c.cmd \in {"Get", "Dump", "Quit"} => db' = db
            /\ c.cmd = "Set" =>
                 /\ DOMAIN db' = (DOMAIN db) \cup {c.key}
                 /\ \A x \in (DOMAIN db) \ {c.key} : db'[x] = db[x]
            /\ should_terminate' = (should_terminate \/ c.cmd = "Quit")]_vars
    /\ [][(db' # db \/ should_terminate' # should_terminate) =>
            pc = "handle" /\ ~should_terminate]_vars

\* A Get has been served while the map holds both keys.
C20_Witness ==
    /\ pc = "check"
    /\ DOMAIN db = Keys
    /\ res.resp = "Value"
    /\ ~should_terminate

=============================================================================
